---- MODULE Spec2Model ----
(***************************************************************************)
(* Voice-Diary: the scheduler (scheduler.py) that runs the pipeline        *)
(* download -> transcribe -> organize -> ongoing entries -> email and      *)
(* keeps the run state in pipeline_state.json, together with the           *)
(* ongoing-entries chain (process_ongoing_entries.py,                      *)
(* check_ongoing_entries.py).                                              *)
(*                                                                         *)
(* A Python dict is a function whose DOMAIN is the set of keys present.    *)
(* An Optional value (None or a value) is a sequence of length 0 or 1.     *)
(* datetime.now() is the logical clock `clock`, which ticks at the start   *)
(* of every pipeline run.                                                  *)
(***************************************************************************)
EXTENDS Integers, Sequences, FiniteSets, TLC

\* ---------------------------------------------------------------- bounds
MaxRuns == 2

\* ------------------------------------------------------- program constants
SecondsPerDay == 86400

\* ------------------------------------------------------------ dict helpers
EmptyDict == [k \in {} |-> 0]

Has(d, k) == k \in DOMAIN d

Get(d, k, default) == IF k \in DOMAIN d THEN d[k] ELSE default

Put(d, k, v) == [x \in (DOMAIN d) \cup {k} |-> IF x = k THEN v ELSE d[x]]

None == << >>

Some(v) == << v >>

\* ------------------------------------------------------------ json module
\* A JSON document is the tree of its text: <<"null">>, <<"number", n>>,
\* <<"string", s>> or <<"object", members>>, members a function of the names.
\* The Python values the scheduler puts into its state record, by key: int
\* counters, str (a time is the isoformat string of an instant of `clock`),
\* dict, and last_processed_time, which is None or a str.
IntKeys == {"total_runs", "successful_runs", "total_processed", "successful_processed",
            "failed_processed"}

DictKeys == {"processing_stats"}

OptionalKeys == {"last_processed_time"}

\* None written as the string "None"
json_dump_optional_as_str(v) == IF v = None THEN <<"string", "None">> ELSE <<"string", v[1]>>

\* json.dump of a value that is None or a str
json_dump_optional(v) == IF v = None THEN <<"null">> ELSE <<"string", v[1]>>

RECURSIVE json_dump_value(_, _)
\* json.dump of the value v stored under key k
json_dump_value(k, v) ==
    IF k \in IntKeys THEN <<"number", v>>
    ELSE IF k \in DictKeys
    THEN <<"object", [m \in DOMAIN v |-> json_dump_value(m, v[m])]>>
    ELSE IF k \in OptionalKeys THEN json_dump_optional(v)
    ELSE <<"string", v>>

\* json.dump(updates, f, indent=2)
json_dump(d) == <<"object", [k \in DOMAIN d |-> json_dump_value(k, d[k])]>>

RECURSIVE json_load_value(_, _)
\* json.load of the document j found under key k: null gives None, a number
\* an int, a string a str, an object a dict
json_load_value(k, j) ==
    IF j[1] = "null" THEN None
    ELSE IF j[1] = "object"
    THEN [m \in DOMAIN j[2] |-> json_load_value(m, j[2][m])]
    ELSE IF j[1] = "string" /\ k \in OptionalKeys THEN Some(j[2])
    ELSE j[2]

\* json.load(f) of a document that is an object
json_load(j) == [k \in DOMAIN j[2] |-> json_load_value(k, j[2][k])]

\* ------------------------------------------------------------- state file
\* `data` is the JSON document in the file when `kind` is "json"
AbsentFile == [kind |-> "absent", data |-> json_dump(EmptyDict)]

CorruptFile == [kind |-> "corrupt", data |-> json_dump(EmptyDict)]

JsonFile(rec) == [kind |-> "json", data |-> json_dump(rec)]

WriteOutcomes == {"ok", "open_fails", "dump_fails"}

\* update_pipeline_state: open(state_file, 'w') then json.dump; any failure is
\* logged and re-raised.  open() failing leaves the file as it was, a failure
\* after the truncating open leaves text that is not a JSON document.
update_pipeline_state(file, updates, w) ==
    CASE w = "ok" -> JsonFile(updates)
      [] w = "open_fails" -> file
      [] OTHER -> CorruptFile

\* ------------------------------------------------------ interval scheduler
\* the quotient rounded to the nearest integer instead of truncated
calculate_interval_rounded(runs_per_day) ==
    IF runs_per_day = 0 THEN 0
    ELSE IF runs_per_day > 0 THEN (2 * SecondsPerDay + runs_per_day) \div (2 * runs_per_day)
    ELSE -((2 * SecondsPerDay - runs_per_day) \div (-2 * runs_per_day))

\* int(86400 / runs_per_day): true division, then truncation towards zero.
calculate_interval_seconds(runs_per_day) ==
    IF runs_per_day = 0 THEN 0
    ELSE IF runs_per_day > 0 THEN SecondsPerDay \div runs_per_day
    ELSE -(SecondsPerDay \div (-runs_per_day))

\* ------------------------------------------------- ongoing-entries chain
\* A file matched by the glob *_ongoing_entries*.txt: `prefix` is what stands
\* before "_ongoing_entries" when it has the shape dddd-dd-dd (<<y, m, d>>),
\* and << >> when it has not; `suffix` tells files of one day apart.
Prefixes == {<<2024, 1, 1>>, <<2024, 1, 2>>, <<2024, 1, 3>>, <<2024, 13, 1>>, << >>}

FileNames == [prefix : Prefixes, suffix : {0}] \cup [prefix : {<<2024, 1, 1>>}, suffix : {2}]

MaxFiles == 3

RECURSIVE SeqsOver(_, _)
\* the sequences of at most n distinct elements of S: what glob.glob may return
SeqsOver(S, n) ==
    IF n = 0 THEN {<< >>}
    ELSE LET shorter == SeqsOver(S, n - 1)
         IN shorter \cup {Append(q, x) : q \in {r \in shorter : Len(r) = n - 1},
                                        x \in S} 

Distinct(q) == \A i, j \in 1..Len(q) : i # j => q[i] # q[j]

GlobResults == {q \in SeqsOver(FileNames, MaxFiles) : Distinct(q)}

DaysInMonth(y, m) ==
    IF m \in {4, 6, 9, 11} THEN 30
    ELSE IF m = 2 THEN (IF y % 4 = 0 /\ (y % 100 # 0 \/ y % 400 = 0) THEN 29 ELSE 28)
    ELSE 31

\* date_pattern.search + datetime.strptime(date_str, "%Y-%m-%d"): the parsed
\* date, or None when the name has no date or strptime raises ValueError
ParseFileDate(f) ==
    IF Len(f.prefix) # 3 THEN None
    ELSE LET y == f.prefix[1]
             m == f.prefix[2]
             d == f.prefix[3]
         IN IF y >= 1 /\ m \in 1..12 /\ d >= 1 /\ d <= DaysInMonth(y, m)
            THEN Some(<<y, m, d>>) ELSE None

DateLess(a, b) ==
    \/ a[1] < b[1]
    \/ a[1] = b[1] /\ a[2] < b[2]
    \/ a[1] = b[1] /\ a[2] = b[2] /\ a[3] < b[3]

\* the first dated entry in insertion order, whatever its date
MinByDateFirst(files, idx) == CHOOSE i \in idx : \A j \in idx : i <= j

\* min(file_dates.items(), key=date): the first entry, in insertion order,
\* that no other entry is older than
MinByDate(files, idx) ==
    CHOOSE i \in idx :
        /\ \A j \in idx : ~DateLess(ParseFileDate(files[j])[1], ParseFileDate(files[i])[1])
        /\ \A j \in idx : j < i => DateLess(ParseFileDate(files[i])[1], ParseFileDate(files[j])[1])

\* the scan given up at the first name without a parseable date
find_oldest_abort_on_undated(files) ==
    IF Len(files) = 0 THEN [status |-> "no_files", file_path |-> None]
    ELSE IF Len(files) = 1 THEN [status |-> "single_file", file_path |-> None]
    ELSE LET file_dates == {i \in 1..Len(files) : ParseFileDate(files[i]) # None}
         IN IF file_dates = 1..Len(files)
            THEN [status |-> "success", file_path |-> Some(files[MinByDate(files, file_dates)])]
            ELSE [status |-> "no_valid_files", file_path |-> None]

\* find_oldest_ongoing_entries_file on the glob result `files`
find_oldest_ongoing_entries_file(files) ==
    IF Len(files) = 0 THEN [status |-> "no_files", file_path |-> None]
    ELSE IF Len(files) = 1 THEN [status |-> "single_file", file_path |-> None]
    ELSE LET file_dates == {i \in 1..Len(files) : ParseFileDate(files[i]) # None}
         IN IF file_dates # {}
            THEN [status |-> "success", file_path |-> Some(files[MinByDate(files, file_dates)])]
            ELSE [status |-> "no_valid_files", file_path |-> None]

\* what the finder can answer, over every listing glob.glob may return
FinderResults == {find_oldest_ongoing_entries_file(files) : files \in GlobResults}

\* check_ongoing_entries.py __main__: sys.exit(0 if result else 1)
CheckExitCode(found) == IF found.file_path # None THEN 0 ELSE 1

\* run_check_ongoing_entries (--format json): subprocess.run(check=True)
\* raises CalledProcessError on a non-zero exit, which yields None
run_check_ongoing_entries(found) ==
    IF CheckExitCode(found) # 0 THEN None
    ELSE IF found.status = "success" THEN found.file_path ELSE None

\* summarize_ongoing_entries.py main with --input: its exit code
SummarizeOutcomes == {"ok", "read_fails", "llm_fails", "write_fails"}

SummarizeExitCode(s) ==
    CASE s = "read_fails" -> 2
      [] s = "llm_fails" -> 3
      [] s = "write_fails" -> 4
      [] OTHER -> 0

\* run_summarize_ongoing_entries (--format json): <<success, output_file>>
run_summarize_ongoing_entries(s) ==
    IF SummarizeExitCode(s) # 0 THEN <<FALSE, None>>
    ELSE <<TRUE, Some("summary_path")>>

\* process_ongoing_entries.py main (--format json), `found` being the answer
\* of the finder it runs: exit code and the JSON object printed on stdout
process_ongoing_entries(found, s) ==
    LET oldest_file == run_check_ongoing_entries(found)
        summarized == run_summarize_ongoing_entries(s)
    IN IF oldest_file = None
       THEN [returncode |-> 1,
             stdout |-> [status |-> "no_file", output_file |-> None]]
       ELSE IF ~summarized[1]
       THEN [returncode |-> 2,
             stdout |-> [status |-> "error", output_file |-> None]]
       ELSE [returncode |-> 0,
             stdout |-> [status |-> "success", output_file |-> summarized[2]]]

\* ------------------------------------------------------------------ state
VARIABLES
    pc,               \* where the scheduler process stands
    scheduler_config, \* the "scheduler" section of config.json
    interval_seconds, \* main: the interval computed at start-up
    stateFile,        \* pipeline_state.json on disk
    pipeline_state,   \* run_pipeline: the local dict
    success,          \* run_pipeline: the local flag (None while unassigned)
    result,           \* run_pipeline: the parsed stdout of the ongoing step
    exc,              \* the exception being handled in run_pipeline ("none")
    clock,            \* datetime.now()
    runs,             \* pipeline runs started so far
    ret,              \* outcome of the latest run_pipeline call
    attempted,        \* stages invoked so far in the current run, in order
    results,          \* what each invoked stage of the current run reported
    before,           \* pipeline_state.json as the current run found it
    written,          \* how the latest state write of the current run went ("none")
    slept,            \* main: the duration of the time.sleep since the latest run began
    dir_files,        \* check_ongoing_entries.py: what glob.glob returned
    check_result,     \* check_ongoing_entries.py: the result and the exit code
    args,             \* summarize_ongoing_entries.py: the parsed command line
    input_file,       \* summarize_ongoing_entries.py: the file at input_path
    summary_file,     \* summarize_ongoing_entries.py: the file at output_path
    summarized_content, \* summarize_ongoing_entries.py: the local of main
    summ_exit,        \* summarize_ongoing_entries.py: the exit code (None while running)
    downloads_dir,    \* openai_whisper.py: the audio files in DOWNLOADS_DIR
    processed_dir,    \* openai_whisper.py: the audio files in PROCESSED_DIR
    audio_files,      \* openai_whisper.py main: what find_audio_files returned
    transcripts,      \* openai_whisper.py: the transcripts, each named by its audio file
    db_rows,          \* openai_whisper.py: the rows save_transcription has stored
    file_index        \* openai_whisper.py: the position of the loop under way

vars == <<pc, scheduler_config, interval_seconds, stateFile, pipeline_state, success,
          result, exc, clock, runs, ret, attempted, results, before, written, slept,
          dir_files, check_result, args, input_file, summary_file, summarized_content,
          summ_exit, downloads_dir, processed_dir, audio_files, transcripts, db_rows,
          file_index>>

finderVars == <<dir_files, check_result>>

summarizerVars == <<args, input_file, summary_file, summarized_content, summ_exit>>

whisperVars == <<downloads_dir, processed_dir, audio_files, transcripts, db_rows, file_index>>

RunPcs == {"load", "download", "transcribe", "organize", "ongoing", "email", "final", "except"}

\* the values of runs_per_day tried: [type |-> "int" | "str", val |-> n]
IntVal(n) == [type |-> "int", val |-> n]

StrVal == [type |-> "str", val |-> 0]

SchedulerConfigs ==
    {EmptyDict, [runs_per_day |-> IntVal(0)], [runs_per_day |-> IntVal(4)],
     [runs_per_day |-> IntVal(SecondsPerDay + 1)], [runs_per_day |-> StrVal]}

\* nothing has run yet
Idle ==
    /\ interval_seconds = 0
    /\ pipeline_state = EmptyDict
    /\ success = None
    /\ result = None
    /\ exc = "none"
    /\ clock = 0
    /\ runs = 0
    /\ ret = "none"
    /\ attempted = << >>
    /\ results = EmptyDict
    /\ before = AbsentFile
    /\ written = "none"
    /\ slept = None
    /\ check_result = None
    /\ summarized_content = None
    /\ summ_exit = None
    /\ processed_dir = {}
    /\ audio_files = << >>
    /\ transcripts = << >>
    /\ db_rows = {}
    /\ file_index = 0

\* summarize_ongoing_entries.py has not been started
NoSummarizer ==
    /\ args = [keep_original |-> FALSE, dry_run |-> FALSE, format |-> "text"]
    /\ input_file = "missing"
    /\ summary_file = "absent"

\* openai_whisper.py has nothing to do
NoWhisper == downloads_dir = {}

Init ==
    /\ pc = "main"
    /\ stateFile = AbsentFile
    /\ scheduler_config \in SchedulerConfigs
    /\ dir_files = << >>
    /\ Idle
    /\ NoSummarizer
    /\ NoWhisper

\* -------------------------------------------------------------------- main
\* main, lines 303-318: config.get("scheduler", {}).get("runs_per_day", 1);
\* a non-numeric value makes the division raise TypeError, which the outer
\* `except Exception` of main prints before the process ends.
MainStart ==
    /\ pc = "main"
    /\ LET runs_per_day == Get(scheduler_config, "runs_per_day", IntVal(1))
       IN IF runs_per_day.type # "int"
          THEN /\ pc' = "exit_error"
               /\ UNCHANGED interval_seconds
          ELSE /\ interval_seconds' = calculate_interval_seconds(runs_per_day.val)
               /\ pc' = "load"
    /\ UNCHANGED <<scheduler_config, stateFile, pipeline_state, success, result, exc,
                   clock, runs, ret, attempted, results, before, written>>
    /\ UNCHANGED slept
    /\ UNCHANGED finderVars
    /\ UNCHANGED whisperVars
    /\ UNCHANGED summarizerVars

\* main without the run-once branch of lines 314-318
AfterRunSleep == "sleep"

\* where main goes when run_pipeline returns
AfterRun == IF interval_seconds = 0 THEN "exit_done" ELSE "sleep"

\* where main goes when an exception leaves run_pipeline: the loop's
\* `except Exception` calls sys.exit(1), the outer one prints and returns
AfterRaise == IF interval_seconds = 0 THEN "exit_error" ELSE "exit_crashed"

\* ------------------------------------------------------------ run_pipeline
DefaultStats ==
    [total_processed |-> 0, successful_processed |-> 0, failed_processed |-> 0,
     last_processed_time |-> None]

\* lines 126-132
InitStats(ps) ==
    IF Has(ps, "processing_stats") THEN ps ELSE Put(ps, "processing_stats", DefaultStats)

\* MarkFailed without the assignment of last_run_status
MarkFailedNoStatus(ps, step, error) ==
    Put(Put(ps, "last_failed_step", step), "last_error", error)

\* the three assignments every failed stage makes
MarkFailed(ps, step, error) ==
    Put(Put(Put(ps, "last_failed_step", step), "last_error", error),
        "last_run_status", "failed")

\* lines 118-132: load the state of earlier runs; json.load raises on a file
\* that is not a JSON document
LoadState ==
    /\ pc = "load"
    /\ runs < MaxRuns
    /\ runs' = runs + 1
    /\ clock' = clock + 1
    /\ before' = stateFile
    /\ attempted' = << >>
    /\ results' = EmptyDict
    /\ success' = None
    /\ result' = None
    /\ ret' = "none"
    /\ written' = "none"
    /\ IF stateFile.kind = "corrupt"
       THEN /\ pipeline_state' = EmptyDict
            /\ exc' = "JSONDecodeError"
            /\ pc' = "except"
       ELSE /\ pipeline_state' = InitStats(IF stateFile.kind = "json" THEN json_load(stateFile.data)
                                                                      ELSE EmptyDict)
            /\ exc' = "none"
            /\ pc' = "download"
    /\ UNCHANGED <<scheduler_config, interval_seconds, stateFile>>
    /\ slept' = None
    /\ UNCHANGED finderVars
    /\ UNCHANGED whisperVars
    /\ UNCHANGED summarizerVars

\* a stage is invoked and reports `outcome`
Invoke(stage, outcome) ==
    /\ attempted' = Append(attempted, stage)
    /\ results' = Put(results, stage, outcome)

\* an exception `e` is raised inside the try block of run_pipeline
Raise(e) ==
    /\ exc' = e
    /\ pc' = "except"

\* update_pipeline_state(STATE_FILE, ps) inside the try block, followed by
\* `return value`: a failed write raises into the except clause instead
SaveAndReturn(ps, w, value) ==
    /\ stateFile' = update_pipeline_state(stateFile, ps, w)
    /\ written' = w
    /\ IF w = "ok"
       THEN /\ ret' = value
            /\ pc' = AfterRun
            /\ UNCHANGED exc
       ELSE /\ Raise("OSError")
            /\ UNCHANGED ret

DownloadOutcomes == {"ok", "nonzero", "timeout"}

\* lines 134-154: step 1, the download from Google Drive (timeout=3600)
Download ==
    /\ pc = "download"
    /\ \E r \in DownloadOutcomes, w \in WriteOutcomes :
        /\ Invoke("download", r)
        /\ CASE r = "timeout" ->
                  /\ Raise("TimeoutExpired")
                  /\ UNCHANGED <<pipeline_state, stateFile, ret, written>>
             [] r = "nonzero" ->
                  /\ pipeline_state' = MarkFailed(pipeline_state, "gdrive_download",
                                                  "gdrive_result.stderr")
                  /\ SaveAndReturn(pipeline_state', w, "False")
             [] OTHER ->
                  /\ pc' = "transcribe"
                  /\ UNCHANGED <<pipeline_state, stateFile, ret, exc, written>>
    /\ UNCHANGED <<scheduler_config, interval_seconds, success, result, clock, runs, before>>
    /\ UNCHANGED slept
    /\ UNCHANGED finderVars
    /\ UNCHANGED whisperVars
    /\ UNCHANGED summarizerVars

TranscribeOutcomes == {"ok", "nonzero", "raises"}

TranscriptStates == {"missing", "empty", "nonempty"}

\* the existence check left out
TranscriptExistsAlways(transcript) == TRUE

\* os.path.exists(TRANSCRIPTION_FILE), line 175
TranscriptExists(transcript) == transcript # "missing"

\* lines 159-180: step 2, the transcription, and the check that
\* transcription.txt exists; subprocess.run itself may raise OSError
Transcribe ==
    /\ pc = "transcribe"
    /\ \E r \in TranscribeOutcomes, transcript \in TranscriptStates :
        /\ Invoke("transcribe", <<r, transcript>>)
        /\ IF r = "raises"
           THEN /\ Raise("SubprocessError")
                /\ UNCHANGED <<pipeline_state, success>>
           ELSE IF r # "ok"
           THEN /\ pipeline_state' = MarkFailed(pipeline_state, "transcription",
                                                "whisper_result.stderr")
                /\ success' = Some(FALSE)
                /\ pc' = "final"
                /\ UNCHANGED exc
           ELSE IF ~TranscriptExists(transcript)
           THEN /\ pipeline_state' = MarkFailed(pipeline_state, "transcription_file_missing",
                                                "Transcription file not found")
                /\ success' = Some(FALSE)
                /\ pc' = "final"
                /\ UNCHANGED exc
           ELSE /\ pc' = "organize"
                /\ UNCHANGED <<pipeline_state, success, exc>>
    /\ UNCHANGED <<scheduler_config, interval_seconds, stateFile, result, clock, runs,
                   ret, before, written>>
    /\ UNCHANGED slept
    /\ UNCHANGED finderVars
    /\ UNCHANGED whisperVars
    /\ UNCHANGED summarizerVars

\* lines 188-189
CountProcessed(ps, now) ==
    Put(ps, "processing_stats",
        [ps["processing_stats"] EXCEPT !.total_processed = @ + 1,
                                       !.last_processed_time = Some(now)])

\* the failure branch without its increment of failed_processed
CountFailedForgotten(ps) == ps

\* line 196
CountFailed(ps) ==
    Put(ps, "processing_stats", [ps["processing_stats"] EXCEPT !.failed_processed = @ + 1])

\* lines 200-201
CountSuccessful(ps) ==
    Put(Put(ps, "last_run_status", "success"), "processing_stats",
        [ps["processing_stats"] EXCEPT !.successful_processed = @ + 1])

OrganizeOutcomes == {"ok", "nonzero", "raises"}

\* lines 182-202: step 3, the processing of the transcription;
\* subprocess.run itself may raise OSError
Organize ==
    /\ pc = "organize"
    /\ \E r \in OrganizeOutcomes :
        /\ Invoke("organize", r)
        /\ LET counted == CountProcessed(pipeline_state, clock)
           IN IF r = "raises"
              THEN /\ Raise("SubprocessError")
                   /\ UNCHANGED <<pipeline_state, success>>
              ELSE IF r # "ok"
              THEN /\ pipeline_state' =
                          CountFailed(MarkFailed(counted, "transcription_processing",
                                                 "process_result.stderr"))
                   /\ success' = Some(FALSE)
                   /\ pc' = "final"
                   /\ UNCHANGED exc
              ELSE /\ pipeline_state' = CountSuccessful(counted)
                   /\ success' = Some(TRUE)
                   /\ pc' = "ongoing"
                   /\ UNCHANGED exc
    /\ UNCHANGED <<scheduler_config, interval_seconds, stateFile, result, clock, runs,
                   ret, before, written>>
    /\ UNCHANGED slept
    /\ UNCHANGED finderVars
    /\ UNCHANGED whisperVars
    /\ UNCHANGED summarizerVars

\* lines 204-229 and 250-254: step 4, process_ongoing_entries.py --format json
\* (timeout=1800), whose finder answers `found` for the directory it lists
Ongoing ==
    /\ pc = "ongoing"
    /\ \E found \in FinderResults, s \in SummarizeOutcomes, timedOut \in BOOLEAN :
        LET ongoing_result == process_ongoing_entries(found, s)
        IN IF timedOut
           THEN /\ Invoke("ongoing", [finder |-> found.status, returncode |-> -1])
                /\ Raise("TimeoutExpired")
                /\ UNCHANGED <<pipeline_state, success, result>>
           ELSE /\ Invoke("ongoing", [finder |-> found.status,
                                      returncode |-> ongoing_result.returncode])
                /\ UNCHANGED exc
                /\ IF ongoing_result.returncode # 0
                   THEN /\ pipeline_state' = MarkFailed(pipeline_state,
                                                        "ongoing_entries_processing",
                                                        "ongoing_result.stderr")
                        /\ success' = Some(FALSE)
                        /\ pc' = "final"
                        /\ UNCHANGED result
                   ELSE /\ result' = Some(ongoing_result.stdout)
                        /\ pc' = IF /\ ongoing_result.stdout.status # "no_file"
                                    /\ ongoing_result.stdout.status = "success"
                                    /\ ongoing_result.stdout.output_file # None
                                 THEN "email" ELSE "final"
                        /\ UNCHANGED <<pipeline_state, success>>
    /\ UNCHANGED <<scheduler_config, interval_seconds, stateFile, clock, runs, ret, before, written>>
    /\ UNCHANGED slept
    /\ UNCHANGED finderVars
    /\ UNCHANGED whisperVars
    /\ UNCHANGED summarizerVars

EmailOutcomes == {"sent", "send_failed", "raises"}

\* lines 231-249: step 5, read the summary and send it by email
Email ==
    /\ pc = "email"
    /\ \E r \in EmailOutcomes :
        /\ Invoke("email", r)
        /\ CASE r = "raises" ->
                  /\ Raise("EmailError")
                  /\ UNCHANGED success
             [] r = "send_failed" ->
                  /\ success' = Some(FALSE)
                  /\ pc' = "final"
                  /\ UNCHANGED exc
             [] OTHER ->
                  /\ pc' = "final"
                  /\ UNCHANGED <<success, exc>>
    /\ UNCHANGED <<scheduler_config, interval_seconds, stateFile, pipeline_state, result,
                   clock, runs, ret, before, written>>
    /\ UNCHANGED slept
    /\ UNCHANGED finderVars
    /\ UNCHANGED whisperVars
    /\ UNCHANGED summarizerVars

\* FinalUpdate with total_runs counted in an else branch
FinalUpdateElse(ps, ok, now) ==
    LET timed == Put(ps, "last_run_time", now)
    IN IF ok THEN Put(timed, "successful_runs", Get(ps, "successful_runs", 0) + 1)
       ELSE Put(timed, "total_runs", Get(ps, "total_runs", 0) + 1)

\* lines 256-260
FinalUpdate(ps, ok, now) ==
    LET counted == Put(Put(ps, "last_run_time", now),
                       "total_runs", Get(ps, "total_runs", 0) + 1)
    IN IF ok THEN Put(counted, "successful_runs", Get(ps, "successful_runs", 0) + 1)
       ELSE counted

\* lines 256-267: count the run, save the state, return success
FinalWrite ==
    /\ pc = "final"
    /\ \E w \in WriteOutcomes :
        /\ pipeline_state' = FinalUpdate(pipeline_state, success[1], clock)
        /\ SaveAndReturn(pipeline_state', w, IF success[1] THEN "True" ELSE "False")
    /\ UNCHANGED <<scheduler_config, interval_seconds, success, result, clock, runs,
                   attempted, results, before>>
    /\ UNCHANGED slept
    /\ UNCHANGED finderVars
    /\ UNCHANGED whisperVars
    /\ UNCHANGED summarizerVars

\* ErrorRecord without the traceback
ErrorRecordNoTraceback(now, e) ==
    [last_run_time |-> now, last_run_status |-> "error", last_error |-> e]

\* lines 272-277
ErrorRecord(now, e) ==
    [last_run_time |-> now, last_run_status |-> "error", last_error |-> e,
     error_traceback |-> <<"Traceback", e>>]

\* lines 269-279: the except clause; a failed write here leaves run_pipeline
\* as an exception
ExceptHandler ==
    /\ pc = "except"
    /\ \E w \in WriteOutcomes :
        /\ pipeline_state' = ErrorRecord(clock, exc)
        /\ stateFile' = update_pipeline_state(stateFile, pipeline_state', w)
        /\ written' = w
        /\ IF w = "ok"
           THEN /\ ret' = "False"
                /\ pc' = AfterRun
           ELSE /\ ret' = "raised"
                /\ pc' = AfterRaise
    /\ UNCHANGED <<scheduler_config, interval_seconds, success, result, exc, clock, runs,
                   attempted, results, before>>
    /\ UNCHANGED slept
    /\ UNCHANGED finderVars
    /\ UNCHANGED whisperVars
    /\ UNCHANGED summarizerVars

\* no wait after a run that returned False
SleepDurationSkipOnFailure(returned) == IF returned = "False" THEN 0 ELSE interval_seconds

\* line 332: time.sleep(interval_seconds), whatever run_pipeline returned at
\* line 324
SleepDuration(returned) == interval_seconds

\* lines 326-332: report the next run time, sleep, and loop
Sleep ==
    /\ pc = "sleep"
    /\ pc' = "load"
    /\ UNCHANGED <<scheduler_config, interval_seconds, stateFile, pipeline_state, success,
                   result, exc, clock, runs, ret, attempted, results, before, written>>
    /\ slept' = Some(SleepDuration(ret))
    /\ UNCHANGED finderVars
    /\ UNCHANGED whisperVars
    /\ UNCHANGED summarizerVars

\* KeyboardInterrupt: not an Exception, so run_pipeline does not catch it;
\* the loop's `except KeyboardInterrupt` (line 334) does, run-once mode has
\* no handler for it
Interrupt ==
    /\ pc \in RunPcs \cup {"sleep"}
    /\ pc' = IF interval_seconds = 0 THEN "exit_interrupted" ELSE "exit_stopped"
    /\ UNCHANGED <<scheduler_config, interval_seconds, stateFile, pipeline_state, success,
                   result, exc, clock, runs, ret, attempted, results, before, written>>
    /\ UNCHANGED slept
    /\ UNCHANGED finderVars
    /\ UNCHANGED whisperVars
    /\ UNCHANGED summarizerVars

Next ==
    \/ MainStart
    \/ LoadState
    \/ Download
    \/ Transcribe
    \/ Organize
    \/ Ongoing
    \/ Email
    \/ FinalWrite
    \/ ExceptHandler
    \/ Sleep
    \/ Interrupt

Spec == Init /\ [][Next]_vars

\* ------------- the scheduler started over a state file that is not JSON
\* pipeline_state.json as a write that failed after the truncating open (of
\* this program in an earlier process) left it
InitRestart ==
    /\ pc = "main"
    /\ stateFile = CorruptFile
    /\ scheduler_config \in SchedulerConfigs
    /\ dir_files = << >>
    /\ Idle
    /\ NoSummarizer
    /\ NoWhisper

SpecRestart == InitRestart /\ [][Next]_vars

\* ------------------------------------- the interval computation on its own
MaxRunsPerDay == 60

CalcConfigs ==
    {[runs_per_day |-> IntVal(n)] :
        n \in (0..MaxRunsPerDay) \cup {SecondsPerDay - 1, SecondsPerDay, SecondsPerDay + 1,
                                       2 * SecondsPerDay}}

InitCalc ==
    /\ pc = "main"
    /\ stateFile = AbsentFile
    /\ scheduler_config \in CalcConfigs
    /\ dir_files = << >>
    /\ Idle
    /\ NoSummarizer
    /\ NoWhisper

NextCalc == MainStart

SpecCalc == InitCalc /\ [][NextCalc]_vars

\* ------------------------------------ check_ongoing_entries.py on its own
\* check_ongoing_entries.py __main__, lines 216-231 (--format json): the
\* JSON object printed and the exit code
CheckMain ==
    /\ pc = "check_main"
    /\ LET oldest == find_oldest_ongoing_entries_file(dir_files)
       IN check_result' = Some([status |-> oldest.status, file_path |-> oldest.file_path,
                                exit_code |-> CheckExitCode(oldest)])
    /\ pc' = "check_done"
    /\ UNCHANGED <<scheduler_config, interval_seconds, stateFile, pipeline_state, success,
                   result, exc, clock, runs, ret, attempted, results, before, written,
                   slept, dir_files>>
    /\ UNCHANGED summarizerVars
    /\ UNCHANGED whisperVars

InitFinder ==
    /\ pc = "check_main"
    /\ stateFile = AbsentFile
    /\ scheduler_config = EmptyDict
    /\ dir_files \in GlobResults
    /\ Idle
    /\ NoSummarizer
    /\ NoWhisper

NextFinder == CheckMain

SpecFinder == InitFinder /\ [][NextFinder]_vars

\* ---------------------------- summarize_ongoing_entries.py on its own
\* The script run with --input on one ongoing-entries file, its summary going
\* to a path other than the input's.  The file at input_path is "missing",
\* "empty" or holds "entries"; the file at output_path is "absent", "old",
\* "written" (by this run) or "partial" (a write that failed after the
\* truncating open).
SummarizerArgs == [keep_original : BOOLEAN, dry_run : BOOLEAN, format : {"text", "json"}]

InputFiles == {"missing", "empty", "entries"}

\* before the script runs: no summary of that day yet, or one of an earlier
\* run ("old"), which has the same name
SummaryFiles == {"absent", "old"}

\* what main prints with --format json (nothing with --format text) and
\* returns; error_code is 0 and kept_original FALSE where the object printed
\* has no such key
SummExit(code, kept) ==
    Some([code |-> code,
          printed |-> IF args.format = "json"
                      THEN Some([status |-> IF code = 0 THEN "success" ELSE "error",
                                 error_code |-> code, kept_original |-> kept])
                      ELSE None])

\* lines 538-551: read_file(input_path) gives None when open or read raises
\* and "" for an empty file; both end the script with code 2
SummRead ==
    /\ pc = "summ_main"
    /\ \E readable \in BOOLEAN :
        LET journal_content == IF input_file = "missing" \/ ~readable THEN None
                               ELSE IF input_file = "empty" THEN Some("")
                               ELSE Some("entries")
        IN IF journal_content = None \/ journal_content = Some("")
           THEN /\ summ_exit' = SummExit(2, FALSE)
                /\ pc' = "summ_done"
           ELSE /\ pc' = "summ_process"
                /\ UNCHANGED summ_exit
    /\ UNCHANGED <<args, input_file, summary_file, summarized_content>>
    /\ UNCHANGED <<scheduler_config, interval_seconds, stateFile, pipeline_state, success,
                   result, exc, clock, runs, ret, attempted, results, before, written, slept>>
    /\ UNCHANGED finderVars
    /\ UNCHANGED whisperVars

LlmOutcomes == {"summary", "empty", "fails"}

\* lines 572-596: process_with_openai gives None on any exception; a dry run
\* does not call it
SummProcess ==
    /\ pc = "summ_process"
    /\ \E llm \in LlmOutcomes :
        /\ summarized_content' =
              IF args.dry_run THEN Some("DRY RUN")
              ELSE IF llm = "fails" THEN None
              ELSE IF llm = "empty" THEN Some("")
              ELSE Some("summary")
        /\ IF summarized_content' = None \/ summarized_content' = Some("")
           THEN /\ summ_exit' = SummExit(3, FALSE)
                /\ pc' = "summ_done"
           ELSE /\ pc' = "summ_write"
                /\ UNCHANGED summ_exit
    /\ UNCHANGED <<args, input_file, summary_file>>
    /\ UNCHANGED <<scheduler_config, interval_seconds, stateFile, pipeline_state, success,
                   result, exc, clock, runs, ret, attempted, results, before, written, slept>>
    /\ UNCHANGED finderVars
    /\ UNCHANGED whisperVars

\* lines 606-628: write_file(output_path, summarized_content), skipped in a
\* dry run; a failed write ends the script with code 4
SummWrite ==
    /\ pc = "summ_write"
    /\ \E w \in WriteOutcomes :
        LET wrote == args.dry_run \/ w = "ok"
        IN /\ summary_file' = IF args.dry_run \/ w = "open_fails" THEN summary_file
                              ELSE IF w = "ok" THEN "written"
                              ELSE "partial"
           /\ IF wrote
              THEN /\ pc' = "summ_delete"
                   /\ UNCHANGED summ_exit
              ELSE /\ summ_exit' = SummExit(4, FALSE)
                   /\ pc' = "summ_done"
    /\ UNCHANGED <<args, input_file, summarized_content>>
    /\ UNCHANGED <<scheduler_config, interval_seconds, stateFile, pipeline_state, success,
                   result, exc, clock, runs, ret, attempted, results, before, written, slept>>
    /\ UNCHANGED finderVars
    /\ UNCHANGED whisperVars

\* the original deleted after a dry run too
DeletesOriginalInDryRun(a) == ~a.keep_original

\* line 631: `if not args.keep_original and not args.dry_run`
DeletesOriginal(a) == ~a.keep_original /\ ~a.dry_run

\* lines 630-658: delete_file(input_path) (a failed unlink is only logged),
\* then report success
SummDelete ==
    /\ pc = "summ_delete"
    /\ \E unlinked \in BOOLEAN :
        input_file' = IF DeletesOriginal(args) /\ unlinked THEN "missing" ELSE input_file
    /\ summ_exit' = SummExit(0, args.keep_original \/ args.dry_run)
    /\ pc' = "summ_done"
    /\ UNCHANGED <<args, summary_file, summarized_content>>
    /\ UNCHANGED <<scheduler_config, interval_seconds, stateFile, pipeline_state, success,
                   result, exc, clock, runs, ret, attempted, results, before, written, slept>>
    /\ UNCHANGED finderVars
    /\ UNCHANGED whisperVars

InitSummarize ==
    /\ pc = "summ_main"
    /\ stateFile = AbsentFile
    /\ scheduler_config = EmptyDict
    /\ dir_files = << >>
    /\ args \in SummarizerArgs
    /\ input_file \in InputFiles
    /\ summary_file \in SummaryFiles
    /\ Idle
    /\ NoWhisper

NextSummarize ==
    \/ SummRead
    \/ SummProcess
    \/ SummWrite
    \/ SummDelete

SpecSummarize == InitSummarize /\ [][NextSummarize]_vars

\* ------------------------------------------------ openai_whisper.py on its own
\* The script run without chunking (chunk_audio is off by default), on the
\* audio files found in DOWNLOADS_DIR.
AudioNames == {"a.mp3", "b.mp3", "c.mp3"}

MaxAudioFiles == 2

\* the orders in which iterdir() may list the files of `dir`
Listings(dir) ==
    {q \in SeqsOver(dir, Cardinality(dir)) :
        Len(q) = Cardinality(dir) /\ Distinct(q)}

WhisperUnchanged ==
    /\ UNCHANGED <<scheduler_config, interval_seconds, stateFile, pipeline_state, success,
                   result, exc, clock, runs, ret, attempted, results, before, written, slept>>
    /\ UNCHANGED finderVars
    /\ UNCHANGED summarizerVars

\* main, lines 590-611: make sure PROCESSED_DIR exists (sys.exit(1)
\* otherwise), list the audio files and return when there is none
WhisperMain ==
    /\ pc = "whisper_main"
    /\ \E made \in BOOLEAN, found \in Listings(downloads_dir) :
        IF ~made
        THEN /\ pc' = "whisper_exit_1"
             /\ UNCHANGED <<audio_files, file_index>>
        ELSE /\ audio_files' = found
             /\ file_index' = 1
             /\ pc' = IF found = << >> THEN "whisper_done" ELSE "whisper_transcribe"
    /\ UNCHANGED <<downloads_dir, processed_dir, transcripts, db_rows>>
    /\ WhisperUnchanged

\* transcribe_audio_files, lines 445-476: one pass of the loop over
\* audio_files; transcribe_with_whisper1 / transcribe_with_4o give None when
\* the API call fails, and only a transcript that was produced is appended.
\* After the last file main (lines 616-618) returns when no transcript was
\* produced.
WhisperTranscribeFile ==
    /\ pc = "whisper_transcribe"
    /\ \E produced \in BOOLEAN :
        /\ transcripts' = IF produced THEN Append(transcripts, audio_files[file_index])
                          ELSE transcripts
        /\ IF file_index < Len(audio_files)
           THEN /\ file_index' = file_index + 1
                /\ UNCHANGED pc
           ELSE /\ file_index' = 1
                /\ pc' = IF transcripts' = << >> THEN "whisper_done" ELSE "whisper_save"
    /\ UNCHANGED <<downloads_dir, processed_dir, audio_files, db_rows>>
    /\ WhisperUnchanged

\* save_transcriptions, lines 519-546: transcript i is stored with
\* audio_files[i]; `n` transcripts are stored before an exception, if any
SavedRows(n) == {[content |-> transcripts[i], audio_path |-> audio_files[i]] : i \in 1..n}

\* main, lines 620-626: save the transcripts; the files are moved only when
\* save_transcriptions returned True
WhisperSave ==
    /\ pc = "whisper_save"
    /\ \E saved \in BOOLEAN, n \in 0..(Len(transcripts) - 1) :
        IF saved
        THEN /\ db_rows' = db_rows \cup SavedRows(Len(transcripts))
             /\ pc' = "whisper_move"
        ELSE /\ db_rows' = db_rows \cup SavedRows(n)
             /\ pc' = "whisper_done"
    /\ UNCHANGED <<downloads_dir, processed_dir, audio_files, transcripts, file_index>>
    /\ WhisperUnchanged

\* main, lines 628-629 and move_to_processed: one pass of the loop over
\* audio_files; a move that fails is logged and the loop goes on
WhisperMoveFile ==
    /\ pc = "whisper_move"
    /\ \E moved \in BOOLEAN :
        LET file_path == audio_files[file_index]
        IN IF moved /\ file_path \in downloads_dir
           THEN /\ downloads_dir' = downloads_dir \ {file_path}
                /\ processed_dir' = processed_dir \cup {file_path}
           ELSE UNCHANGED <<downloads_dir, processed_dir>>
    /\ IF file_index < Len(audio_files)
       THEN /\ file_index' = file_index + 1
            /\ UNCHANGED pc
       ELSE /\ file_index' = 1
            /\ pc' = "whisper_done"
    /\ UNCHANGED <<audio_files, transcripts, db_rows>>
    /\ WhisperUnchanged

InitWhisper ==
    /\ pc = "whisper_main"
    /\ stateFile = AbsentFile
    /\ scheduler_config = EmptyDict
    /\ dir_files = << >>
    /\ downloads_dir \in {d \in SUBSET AudioNames : Cardinality(d) <= MaxAudioFiles}
    /\ Idle
    /\ NoSummarizer

NextWhisper ==
    \/ WhisperMain
    \/ WhisperTranscribeFile
    \/ WhisperSave
    \/ WhisperMoveFile

SpecWhisper == InitWhisper /\ [][NextWhisper]_vars

\* ------------------------------------------------------------- properties
\* run_pipeline has returned and the next run has not begun
RunReturned == ret \in {"True", "False"}

\* the current run met no fault of the state file itself (a failed write, or
\* an unreadable file left by one)
NoStateFileFault == exc \notin {"OSError", "JSONDecodeError"}

Field(f, k, default) == IF f.kind = "json" THEN Get(json_load(f.data), k, default) ELSE default

TotalRuns(f) == Field(f, "total_runs", 0)

SuccessfulRuns(f) == Field(f, "successful_runs", 0)

Stats(f) == Field(f, "processing_stats", DefaultStats)

Reported(stage) == Has(results, stage)

Stages123Succeeded ==
    /\ Reported("download") /\ results["download"] = "ok"
    /\ Reported("transcribe") /\ results["transcribe"][1] = "ok"
    /\ Reported("organize") /\ results["organize"] = "ok"

\* C1: when the download stage exits non-zero, no other stage is attempted in
\* that run and run_pipeline does not return True; when the state write of
\* line 151 succeeds, the record on disk has last_run_status = failed and
\* last_failed_step = "gdrive_download", and run_pipeline returns False.
C1_DownloadFailureStopsRun ==
    (Reported("download") /\ results["download"] = "nonzero") =>
        /\ attempted = <<"download">>
        /\ ret # "True"
        /\ written = "ok" /\ NoStateFileFault =>
            /\ ret = "False"
            /\ Field(stateFile, "last_run_status", "absent") = "failed"
            /\ Field(stateFile, "last_failed_step", "absent") = "gdrive_download"

C1_Witness ==
    /\ Reported("download") /\ results["download"] = "nonzero"
    /\ written = "ok" /\ NoStateFileFault
    /\ ret = "False"
    /\ Field(before, "last_run_status", "absent") = "success"

\* C2: every run that returns leaves total_runs on disk one higher than the
\* run found it, and successful_runs unchanged unless the run returned True.
C2_EveryRunCounted ==
    (RunReturned /\ NoStateFileFault /\ exc = "none") =>
        /\ TotalRuns(stateFile) = TotalRuns(before) + 1
        /\ ret # "True" => SuccessfulRuns(stateFile) = SuccessfulRuns(before)

\* C3: from one run to the next, total_runs and successful_runs on disk never
\* decrease, a run that ends in the except clause included.
C3_CountersMonotonic ==
    (RunReturned /\ NoStateFileFault) =>
        /\ TotalRuns(stateFile) >= TotalRuns(before)
        /\ SuccessfulRuns(stateFile) >= SuccessfulRuns(before)

\* C4: every record on disk, after any sequence of runs that began without a
\* state file, has successful_runs <= total_runs.
C4_SuccessfulAtMostTotal ==
    /\ SuccessfulRuns(stateFile) <= TotalRuns(stateFile)
    /\ Field(stateFile, "successful_runs", -1) # -1 => Field(stateFile, "total_runs", -1) # -1

C4_Witness ==
    /\ RunReturned
    /\ SuccessfulRuns(stateFile) >= 1
    /\ TotalRuns(stateFile) > SuccessfulRuns(stateFile)

\* C5: an exception raised in a step of a pipeline run never ends the
\* process: it is handled by the except clause of run_pipeline, which (when
\* its state write succeeds) leaves a record with last_run_status = error and
\* the traceback and returns False to main; in loop mode main then sleeps, and
\* after the sleep the next run starts unless the operator interrupts.
C5_ExceptionCaughtAndLoopGoesOn ==
    [][
        /\ (pc \in RunPcs \ {"except"}) => pc' \notin {"exit_crashed", "exit_error"}
        /\ (exc = "none" /\ exc' # "none") => pc' = "except"
        /\ (pc = "except" /\ written' = "ok" /\ pc' \notin {"exit_stopped", "exit_interrupted"}) =>
              /\ stateFile'.kind = "json"
              /\ stateFile'.data = json_dump(pipeline_state')
              /\ Field(stateFile', "last_run_status", "absent") = "error"
              /\ Field(stateFile', "error_traceback", None) = <<"Traceback", exc>>
              /\ ret' = "False"
              /\ pc' = IF interval_seconds = 0 THEN "exit_done" ELSE "sleep"
        /\ (pc = "sleep") => pc' \in {"load", "exit_stopped"}
      ]_vars

C5_Witness ==
    /\ pc = "download"
    /\ runs >= 2
    /\ Field(before, "last_run_status", "absent") = "error"
    /\ Field(before, "last_error", "absent") = "TimeoutExpired"

\* C6: when download, transcribe and organize succeed in a run and the
\* summarization then fails, the last_run_status the run leaves on disk is not
\* failed.
C6_SummarizeFailureKeepsStatus ==
    (/\ RunReturned /\ NoStateFileFault
     /\ Stages123Succeeded
     /\ Reported("ongoing") /\ results["ongoing"].returncode = 2) =>
        Field(stateFile, "last_run_status", "absent") # "failed"

\* C7: when the finder meets no file or a single file in a run whose download,
\* transcribe and organize stages succeeded, the run leaves last_run_status
\* other than failed and last_failed_step is not set by the ongoing-entries
\* stage.
C7_NothingToDoIsNotFailure ==
    (/\ RunReturned /\ NoStateFileFault
     /\ Stages123Succeeded
     /\ Reported("ongoing") /\ results["ongoing"].finder \in {"no_files", "single_file"}
     /\ exc = "none") =>
        /\ Field(stateFile, "last_run_status", "absent") # "failed"
        /\ Field(stateFile, "last_failed_step", "absent") # "ongoing_entries_processing"

\* C8: whenever download, transcribe and organize succeed in a run,
\* successful_processed on disk after the run is one higher than before it,
\* whatever the later stages do.
C8_SuccessfulProcessedCounted ==
    (RunReturned /\ NoStateFileFault /\ Stages123Succeeded) =>
        Stats(stateFile).successful_processed = Stats(before).successful_processed + 1

StageOrder == <<"download", "transcribe", "organize", "ongoing", "email">>

\* C9: within one run the stages are attempted in the order download,
\* transcribe, organize, ongoing entries, email, each only after every earlier
\* one was attempted and succeeded, and email only after the ongoing-entries
\* stage reported status success with an output file.
C9_StagesInOrder ==
    /\ Len(attempted) <= Len(StageOrder)
    /\ \A i \in 1..Len(attempted) : attempted[i] = StageOrder[i] /\ Reported(StageOrder[i])
    /\ Len(attempted) >= 2 => results["download"] = "ok"
    /\ Len(attempted) >= 3 => results["transcribe"][1] = "ok" /\ results["transcribe"][2] # "missing"
    /\ Len(attempted) >= 4 => results["organize"] = "ok"
    /\ Len(attempted) >= 5 =>
          /\ results["ongoing"].returncode = 0
          /\ results["ongoing"].finder = "success"
          /\ result # None
          /\ result[1].status = "success"
          /\ result[1].output_file # None

C9_Witness == attempted = StageOrder /\ results["email"] = "sent" /\ ret = "True"

\* C10: when the email dispatch fails after stages 1-4 succeeded (the send
\* reports failure or the email step raises), the record the run leaves on
\* disk has last_run_status = success and keeps the run's increment of
\* processing_stats.
C10_EmailFailureKeepsSuccess ==
    (/\ RunReturned /\ NoStateFileFault
     /\ Reported("email") /\ results["email"] \in {"send_failed", "raises"}) =>
        /\ Field(stateFile, "last_run_status", "absent") = "success"
        /\ Stats(stateFile).successful_processed = Stats(before).successful_processed + 1
        /\ Stats(stateFile).total_processed = Stats(before).total_processed + 1

\* C11: when the download stage or the ongoing-entries stage exceeds its
\* timeout, the run leaves a record with last_run_status = failed and
\* last_failed_step naming the stage that timed out, and the process goes on.
C11_TimeoutIsStageFailure ==
    LET downloadTimedOut == Reported("download") /\ results["download"] = "timeout"
        ongoingTimedOut == Reported("ongoing") /\ results["ongoing"].returncode = -1
    IN (RunReturned /\ NoStateFileFault /\ (downloadTimedOut \/ ongoingTimedOut)) =>
          /\ pc \notin {"exit_crashed", "exit_error"}
          /\ Field(stateFile, "last_run_status", "absent") = "failed"
          /\ Field(stateFile, "last_failed_step", "absent") =
                IF downloadTimedOut THEN "gdrive_download" ELSE "ongoing_entries_processing"

\* C12: the organize stage is attempted only when the transcribe stage exited
\* with 0 and the transcript file exists and is not empty.
C12_OrganizeNeedsNonEmptyTranscript ==
    Reported("organize") => results["transcribe"] = <<"ok", "nonempty">>

\* C13: a run that leaves last_run_status = success leaves a record without
\* last_failed_step and without last_error.
C13_SuccessRecordHasNoOldFailure ==
    (/\ RunReturned /\ NoStateFileFault
     /\ Field(stateFile, "last_run_status", "absent") = "success") =>
        /\ Field(stateFile, "last_failed_step", "absent") = "absent"
        /\ Field(stateFile, "last_error", "absent") = "absent"

\* C14: a run in which the organize stage is not attempted leaves the
\* processing_stats on disk as it found them.
C14_StatsOnlyChangedByOrganize ==
    (RunReturned /\ NoStateFileFault /\ ~Reported("organize")) =>
        Stats(stateFile) = Stats(before)

\* C15: for runs_per_day > 0 the interval computed at start-up is
\* floor(86400 / runs_per_day), the integer q with
\* q * runs_per_day <= 86400 < (q + 1) * runs_per_day; for runs_per_day = 0
\* it is 0.
C15_IntervalIsFloor ==
    pc = "load" =>
        LET runs_per_day == scheduler_config["runs_per_day"].val
        IN /\ runs_per_day > 0 =>
                /\ interval_seconds * runs_per_day <= SecondsPerDay
                /\ SecondsPerDay < (interval_seconds + 1) * runs_per_day
           /\ runs_per_day = 0 => interval_seconds = 0

C15_Witness ==
    /\ pc = "load"
    /\ scheduler_config["runs_per_day"].val = 7
    /\ interval_seconds = 12342

\* C16: with runs_per_day = 0 the pipeline runs once: main never sleeps, never
\* starts a second run, and ends after the one run has returned.
C16_RunOnceThenReturn ==
    scheduler_config = [runs_per_day |-> IntVal(0)] =>
        /\ pc # "sleep"
        /\ slept = None
        /\ runs <= 1
        /\ pc = "exit_done" => runs = 1 /\ RunReturned

C16_Witness ==
    /\ scheduler_config = [runs_per_day |-> IntVal(0)]
    /\ pc = "exit_done"
    /\ ret = "True"

\* C17: in loop mode a run begins only from the start of main or after the
\* sleep; main sleeps only once run_pipeline has returned, and for the full
\* interval_seconds whatever the run returned; the next run begins only after
\* that sleep.
C17_RunThenFullSleep ==
    [][
        /\ (pc' = "load" /\ pc # "load") => pc \in {"main", "sleep"}
        /\ (pc' = "sleep" /\ pc # "sleep") => pc \in RunPcs /\ ret' \in {"True", "False"}
        /\ (pc = "sleep" /\ pc' = "load") => slept' = Some(interval_seconds)
        /\ (runs' = runs + 1 /\ runs >= 1) =>
              /\ pc = "load"
              /\ ret \in {"True", "False"}
              /\ slept = Some(interval_seconds)
      ]_vars

C17_Witness ==
    /\ runs = 2
    /\ pc = "download"
    /\ Field(before, "last_run_status", "absent") = "failed"
    /\ interval_seconds > 0

\* C18: when an interrupt stops the process, the run that was in progress
\* (one that had invoked a stage) has returned.
C18_InterruptOnlyBetweenIterations ==
    (pc \in {"exit_stopped", "exit_interrupted"} /\ attempted # << >>) => RunReturned

\* C19: when the scheduler configuration has no runs_per_day, or one that is
\* not a number, no run starts, no stage is invoked and no state file is
\* written.
C19_BadConfigRunsNothing ==
    (\/ ~Has(scheduler_config, "runs_per_day")
     \/ scheduler_config["runs_per_day"].type # "int") =>
        /\ runs = 0
        /\ attempted = << >>
        /\ stateFile = AbsentFile

AllDated(files) == \A i \in 1..Len(files) : ParseFileDate(files[i]) # None

\* C20: the finder reports no_files with no selection for an empty listing,
\* single_file with no selection for a listing of one file, and for two or
\* more dated files selects a file of the listing that no other file is older
\* than.
C20_FinderSelectsOldest ==
    pc = "check_done" =>
        LET answer == check_result[1]
        IN /\ Len(dir_files) = 0 => answer.status = "no_files" /\ answer.file_path = None
           /\ Len(dir_files) = 1 => answer.status = "single_file" /\ answer.file_path = None
           /\ (Len(dir_files) >= 2 /\ AllDated(dir_files)) =>
                 /\ answer.status = "success"
                 /\ answer.file_path # None
                 /\ \E i \in 1..Len(dir_files) : dir_files[i] = answer.file_path[1]
                 /\ \A j \in 1..Len(dir_files) :
                       ~DateLess(ParseFileDate(dir_files[j])[1],
                                 ParseFileDate(answer.file_path[1])[1])

C20_Witness ==
    /\ pc = "check_done"
    /\ Len(dir_files) = 3
    /\ AllDated(dir_files)
    /\ check_result[1].file_path = Some(dir_files[3])
    /\ dir_files[1].prefix = <<2024, 1, 3>>

Dated(files) == {i \in 1..Len(files) : ParseFileDate(files[i]) # None}

\* C21: whenever the finder selects a file, the listing holds another file
\* with a valid date strictly later than the selected file's, so the file of
\* the newest date is never selected.
C21_NewestNeverSelected ==
    (pc = "check_done" /\ check_result[1].file_path # None) =>
        \E j \in Dated(dir_files) :
            /\ dir_files[j] # check_result[1].file_path[1]
            /\ DateLess(ParseFileDate(check_result[1].file_path[1])[1],
                        ParseFileDate(dir_files[j])[1])

\* C22: for a listing of two or more files, the files without a parseable
\* date are passed over: the finder selects a file of minimum date among the
\* dated ones, reports no_valid_files with no selection when there is none,
\* and returns a path exactly when the status is success.
C22_UndatedSkipped ==
    (pc = "check_done" /\ Len(dir_files) >= 2) =>
        LET answer == check_result[1]
        IN /\ answer.file_path # None <=> answer.status = "success"
           /\ Dated(dir_files) = {} <=> answer.status = "no_valid_files"
           /\ Dated(dir_files) # {} =>
                 /\ answer.status = "success"
                 /\ \E i \in Dated(dir_files) : dir_files[i] = answer.file_path[1]
                 /\ \A j \in Dated(dir_files) :
                       ~DateLess(ParseFileDate(dir_files[j])[1],
                                 ParseFileDate(answer.file_path[1])[1])

C22_Witness ==
    /\ pc = "check_done"
    /\ Len(dir_files) = 3
    /\ ParseFileDate(dir_files[1]) = None
    /\ dir_files[2].prefix = <<2024, 1, 3>>
    /\ dir_files[3].prefix = <<2024, 1, 2>>
    /\ check_result[1].file_path = Some(dir_files[3])

\* C23: the summarizer removes its input file only after the summary was
\* generated and written, and never with --keep-original or --dry-run; when
\* reading the input, generating the summary or writing it fails (exit codes
\* 2, 3, 4), the input file is as it was.
C23_InputDeletedOnlyAfterSummary ==
    [][
        /\ input_file' # input_file =>
              /\ input_file = "entries" /\ input_file' = "missing"
              /\ summarized_content \notin {None, Some("")}
              /\ summary_file = "written"
              /\ ~args.keep_original /\ ~args.dry_run
              /\ summ_exit'[1].code = 0
        /\ (summ_exit = None /\ summ_exit' # None /\ summ_exit'[1].code # 0) =>
              /\ summ_exit'[1].code \in {2, 3, 4}
              /\ input_file' = input_file
        /\ (summ_exit = None /\ summ_exit' # None /\ summ_exit'[1].code = 0) =>
              (args.dry_run \/ (summary_file = "written" /\ summarized_content = Some("summary")))
        /\ summ_exit # None => input_file' = input_file
      ]_vars

C23_Witness ==
    /\ pc = "summ_done"
    /\ input_file = "missing"
    /\ summary_file = "written"
    /\ summ_exit # None /\ summ_exit[1].code = 0

\* C24: a run that finds the state file missing or not parsable starts from
\* the default record (processing_stats seeded with zeros) and goes on to its
\* stages: it does not end in the except clause before any stage was invoked.
C24_UnreadableStateStartsFresh ==
    (runs >= 1 /\ before.kind \in {"absent", "corrupt"}) =>
        /\ pc = "download" => pipeline_state = [processing_stats |-> DefaultStats]
        /\ pc = "except" => attempted # << >>
        /\ RunReturned => attempted # << >>

\* C25: a run in which a write of the state file failed (in the try block,
\* raising OSError there, or in the except clause) does not return to main
\* normally: run_pipeline is left by the exception.
C25_WriteFailurePropagates ==
    (exc = "OSError" \/ written \in {"open_fails", "dump_fails"}) =>
        /\ ~RunReturned
        /\ pc \notin {"sleep", "exit_done"}

\* C26: the record a run persists is read back unchanged: after a write that
\* succeeded, json.load of the file equals the record written, and the next
\* run starts from that record (with processing_stats added when the record
\* has none).
C26_SaveThenLoadRoundTrip ==
    [][
        /\ written' = "ok" =>
              /\ stateFile'.kind = "json"
              /\ json_load(stateFile'.data) = pipeline_state'
        /\ (pc = "load" /\ pc' \in {"download", "except"} /\ written = "ok") =>
              /\ pc' = "download"
              /\ pipeline_state' = InitStats(pipeline_state)
              /\ Has(pipeline_state, "processing_stats") => pipeline_state' = pipeline_state
      ]_vars

C26_Witness ==
    /\ pc = "download"
    /\ runs = 2
    /\ Get(pipeline_state, "successful_runs", 0) = 1
    /\ Get(pipeline_state, "last_run_status", "absent") = "success"
    /\ pipeline_state["processing_stats"].last_processed_time = Some(1)

\* C27: with a runs_per_day greater than 0 the scheduler is in loop mode: the
\* interval it computed is positive and main never ends the way the run-once
\* branch does, after a single run.
C27_RunOnceOnlyForZero ==
    (/\ Has(scheduler_config, "runs_per_day")
     /\ scheduler_config["runs_per_day"].type = "int"
     /\ scheduler_config["runs_per_day"].val > 0) =>
        /\ pc # "main" => interval_seconds > 0
        /\ pc # "exit_done"

\* C28: in a run that reached the final state write of lines 256-263 (the
\* download succeeded and no exception was raised), successful_runs on disk
\* is one higher than the run found it exactly when the run left
\* last_run_status = success, and run_pipeline returned True exactly then.
C28_SuccessCountedIffStatusSuccess ==
    (/\ RunReturned /\ exc = "none" /\ written = "ok"
     /\ Reported("download") /\ results["download"] = "ok") =>
        LET persistedSuccess == Field(stateFile, "last_run_status", "absent") = "success"
        IN /\ (SuccessfulRuns(stateFile) = SuccessfulRuns(before) + 1) <=> persistedSuccess
           /\ (SuccessfulRuns(stateFile) = SuccessfulRuns(before)) <=> ~persistedSuccess
           /\ (ret = "True") <=> persistedSuccess

\* C29: every record on disk that has processing_stats, after any sequence
\* of runs that began without a state file, has
\* total_processed = successful_processed + failed_processed.
C29_ProcessedCountersAddUp ==
    (stateFile.kind = "json" /\ Has(json_load(stateFile.data), "processing_stats")) =>
        LET stats == json_load(stateFile.data)["processing_stats"]
        IN stats.total_processed = stats.successful_processed + stats.failed_processed

C29_Witness ==
    /\ RunReturned
    /\ stateFile.kind = "json"
    /\ Has(json_load(stateFile.data), "processing_stats")
    /\ Stats(stateFile).total_processed = 2
    /\ Stats(stateFile).successful_processed = 1
    /\ Stats(stateFile).failed_processed = 1

\* C30: an audio file is in the processed directory only if a transcript
\* was produced for it and stored; a file whose transcription failed stays in
\* the downloads directory.
C30_MovedOnlyIfTranscribed ==
    \A f \in processed_dir :
        /\ \E i \in 1..Len(transcripts) : transcripts[i] = f
        /\ \E row \in db_rows : row.content = f

====
